---- MODULE Spec2Model ----
(***************************************************************************)
(* FullOnCrypto backend API (src/server.js): an Express application whose  *)
(* handlers run as interleaved asynchronous tasks over one MongoDB          *)
(* database with the collections users, paymentRequests and upiIndex.       *)
(*                                                                          *)
(* A request occupies a slot.  Between two awaits a handler runs without    *)
(* interruption (one JavaScript thread); every awaited store operation is   *)
(* one step of the model: the store applies the operation and the handler   *)
(* runs on to its next await or to its response.                            *)
(***************************************************************************)
EXTENDS Integers, Sequences, FiniteSets, TLC

\* ------------------------------------------------------------------ bounds
MaxPayments == 3    \* payment-request creations that reach the store
MaxIndexed == 2     \* the same, where creations and lookups run concurrently
MaxListed == 3      \* the same, where creations and listings run concurrently
MaxUsers == 2       \* user creations that reach the store
MaxTime == 2        \* readings of the clock (new Date()) are 0..MaxTime
MaxClients == 2     \* MongoClient objects created by connectToDatabase

Slots == {1, 2}     \* requests that can be in progress at the same time

\* ------------------------------------------------------- JavaScript values
\* A JSON value of a request body or a document field.  A string is the
\* sequence of its characters.
Undef == [t |-> "undefined", s |-> <<>>, n |-> 0]
Null == [t |-> "null", s |-> <<>>, n |-> 0]
Str(s) == [t |-> "string", s |-> s, n |-> 0]
Num(n) == [t |-> "number", s |-> <<>>, n |-> n]

\* ToBoolean: undefined, null, '' and 0 are falsy.
Truthy(v) ==
    CASE v.t = "undefined" -> FALSE
      [] v.t = "null" -> FALSE
      [] v.t = "string" -> v.s # <<>>
      [] v.t = "number" -> v.n # 0

\* a || b
Or(a, b) == IF Truthy(a) THEN a ELSE b

\* typeof v
TypeOf(v) == IF v.t = "null" THEN "object" ELSE v.t

Rep(c, k) == [i \in 1..k |-> c]

\* String.prototype.toLowerCase, on the letters the inputs are written with.
Upper == <<"A", "B", "C", "D", "E", "F", "X", "Z">>
Lower == <<"a", "b", "c", "d", "e", "f", "x", "z">>

LowerChar(c) ==
    IF \E i \in DOMAIN Upper : Upper[i] = c
    THEN Lower[CHOOSE i \in DOMAIN Upper : Upper[i] = c]
    ELSE c

ToLowerCase(v) == Str([i \in DOMAIN v.s |-> LowerChar(v.s[i])])

\* s.startsWith(p)
StartsWith(v, p) == Len(v.s) >= Len(p) /\ SubSeq(v.s, 1, Len(p)) = p

\* /^0x[a-fA-F0-9]{40}$/.test(ethAddress)
HexDigits ==
    {"0", "1", "2", "3", "4", "5", "6", "7", "8", "9",
     "a", "b", "c", "d", "e", "f", "A", "B", "C", "D", "E", "F"}

AddressDigits == 40

IsEthAddress(v) ==
    /\ v.t = "string"
    /\ Len(v.s) = 2 + AddressDigits
    /\ v.s[1] = "0"
    /\ v.s[2] = "x"
    /\ \A i \in 3..Len(v.s) : v.s[i] \in HexDigits

\* !signature.startsWith('0x') || signature.length !== 132
SignatureLength == 132

BadSignature(v) == ~StartsWith(v, <<"0", "x">>) \/ Len(v.s) # SignatureLength

\* ------------------------------------------------------------------- state
VARIABLES
    db,               \* server.js:12   the memoized database handle is set
    clients,          \* server.js:26   MongoClient objects created so far
    users,            \* collection users, in natural (insertion) order
    paymentRequests,  \* collection paymentRequests, in natural order
    upiIndex,         \* collection upiIndex, in natural order
    now,              \* the clock read by new Date()
    kind,             \* per slot: the route of the request
    body,             \* per slot: req.body / req.params
    pc,               \* per slot: the await the handler is suspended at
    local,            \* per slot: the handler's local documents
    res,              \* per slot: the response sent
    fault,            \* per slot: the operation whose rejection was caught
    lastOk,           \* history: per contractRequestId, the fields of the
                      \* latest creation answered 201
    proc              \* the process: "lazy" (server.js, connects on first use),
                      \* or "starting", "serving", "exited" (the variant that
                      \* connects when it starts)

vars == <<db, clients, users, paymentRequests, upiIndex, now, kind, body, pc,
          local, res, fault, lastOk, proc>>

store == <<users, paymentRequests, upiIndex>>

\* --------------------------------------------------------------- responses
NoRes == [status |-> 0, sent |-> 0, error |-> "", data |-> <<>>]

\* res.status(code).json({ error }) / res.status(code).json({ message, ... })
Reply(old, code, error, data) ==
    [status |-> code, sent |-> old.sent + 1, error |-> error, data |-> data]

Slot(p, l, r) == [pc |-> p, local |-> l, res |-> r]

\* ------------------------------------------------------- the document store
\* insertOne: the driver gives the document a fresh _id and the store appends
\* it.  No collection ever loses a document, so the position is fresh.
InsertOne(coll, doc) == Append(coll, [doc EXCEPT !._id = Len(coll) + 1])

Min(S) == CHOOSE x \in S : \A y \in S : x <= y

\* findOne, given the positions M of the documents that match the filter: the
\* first of them in natural order, as <<doc>>, or <<>> (null).
FindOne(coll, M) == IF M = {} THEN <<>> ELSE <<coll[Min(M)]>>

\* A write that merges the replacement into the matched document: an empty
\* payeeName or note of the replacement leaves the old value in place.
ReplaceMerged(coll, i, doc) ==
    [coll EXCEPT ![i] =
        [doc EXCEPT !._id = coll[i]._id,
                    !.payeeName = IF doc.payeeName = Str(<<>>) THEN coll[i].payeeName ELSE @,
                    !.note = IF doc.note = Str(<<>>) THEN coll[i].note ELSE @]]

\* The write of replaceOne on a matched document: the whole document is
\* replaced by the replacement; only _id is kept.
ReplaceAt(coll, i, doc) == [coll EXCEPT ![i] = [doc EXCEPT !._id = coll[i]._id]]

\* ----------------------------------------------------- connectToDatabase
\* The handler of a route from its first statement after
\* `await connectToDatabase()` to its first awaited store operation or to its
\* response; t is the clock.  (The routes are added to the CASE below.)
PaymentRequestDoc(b, t) ==
    [_id |-> 0,
     upiId |-> b.upiId,
     amount |-> b.amount,
     payeeName |-> Or(b.payeeName, Str(<<>>)),
     note |-> Or(b.note, Str(<<>>)),
     contractRequestId |-> Or(b.contractRequestId, Null),
     walletAddress |-> Or(b.walletAddress, Str(<<>>)),
     daiAmount |-> Or(b.daiAmount, Num(0)),
     ethFee |-> Or(b.ethFee, Num(0)),
     requesterId |-> Or(b.walletAddress, Str(<<"a", "n", "o", "n">>)),
     status |-> "pending",
     createdAt |-> t]

\* A test of the amount that leaves out its type: '10' <= 0 is false.
BadAmountUntyped(a) == a.t = "number" /\ a.n <= 0

\* typeof amount !== 'number' || amount <= 0
BadAmount(a) == TypeOf(a) # "number" \/ a.n <= 0

PaymentRequestEntry(b, t) ==
    IF ~Truthy(b.upiId) \/ ~Truthy(b.amount)
    THEN Slot("done", <<>>, Reply(NoRes, 400, "UPI ID and amount are required", <<>>))
    ELSE IF BadAmount(b.amount)
    THEN Slot("done", <<>>, Reply(NoRes, 400, "Amount must be a positive number", <<>>))
    ELSE Slot("insertOne", <<PaymentRequestDoc(b, t)>>, NoRes)

UpiIdEntry(b) ==
    IF ~Truthy(b.contractRequestId)
    THEN Slot("done", <<>>, Reply(NoRes, 400, "Contract request ID is required", <<>>))
    ELSE Slot("findOne", <<>>, NoRes)

PaymentRequestsEntry == Slot("find", <<>>, NoRes)

MinPassword == 6

SignupEntry(b) ==
    IF ~Truthy(b.username) \/ ~Truthy(b.password)
    THEN Slot("done", <<>>, Reply(NoRes, 400, "Username and password are required", <<>>))
    ELSE IF Len(b.password.s) < MinPassword
    THEN Slot("done", <<>>,
              Reply(NoRes, 400, "Password must be at least 6 characters long", <<>>))
    ELSE Slot("findOne", <<>>, NoRes)

MinUsername == 3

RegisterWalletEntry(b) ==
    IF ~Truthy(b.ethAddress) \/ ~Truthy(b.signature) \/ ~Truthy(b.username)
    THEN Slot("done", <<>>,
              Reply(NoRes, 400, "ETH address, signature, and username are required", <<>>))
    ELSE IF ~IsEthAddress(b.ethAddress)
    THEN Slot("done", <<>>, Reply(NoRes, 400, "Invalid ETH address format", <<>>))
    ELSE IF Len(b.username.s) < MinUsername
    THEN Slot("done", <<>>,
              Reply(NoRes, 400, "Username must be at least 3 characters long", <<>>))
    ELSE Slot("findUsername", <<>>, NoRes)

UpdateWalletEntry(b) ==
    IF ~Truthy(b.ethAddress)
    THEN Slot("done", <<>>, Reply(NoRes, 400, "ETH address is required", <<>>))
    ELSE IF ~Truthy(b.username)
    THEN Slot("done", <<>>, Reply(NoRes, 400, "Username is required", <<>>))
    ELSE IF ~IsEthAddress(b.ethAddress)
    THEN Slot("done", <<>>, Reply(NoRes, 400, "Invalid ETH address format", <<>>))
    ELSE Slot("findWallet", <<>>, NoRes)

\* GET /api/health: nothing follows connectToDatabase but the answer.
HealthEntry ==
    Slot("done", <<>>,
         Reply(NoRes, 200, "", <<[status |-> "healthy", mongodb |-> "connected"]>>))

\* A login that does not ask for a password.
LoginEntryAnyPassword(b) ==
    IF ~Truthy(b.username)
    THEN Slot("done", <<>>, Reply(NoRes, 400, "Username and password are required", <<>>))
    ELSE Slot("findOne", <<>>, NoRes)

LoginEntry(b) ==
    IF ~Truthy(b.username) \/ ~Truthy(b.password)
    THEN Slot("done", <<>>, Reply(NoRes, 400, "Username and password are required", <<>>))
    ELSE Slot("findOne", <<>>, NoRes)

LoginWalletEntry(b) ==
    IF ~Truthy(b.ethAddress) \/ ~Truthy(b.signature)
    THEN Slot("done", <<>>,
              Reply(NoRes, 400, "ETH address and signature are required", <<>>))
    ELSE IF ~IsEthAddress(b.ethAddress)
    THEN Slot("done", <<>>, Reply(NoRes, 400, "Invalid ETH address format", <<>>))
    ELSE Slot("findOne", <<>>, NoRes)

ContractEntry(b) ==
    IF ~Truthy(b.contractRequestId)
    THEN Slot("done", <<>>, Reply(NoRes, 400, "Contract request ID is required", <<>>))
    ELSE Slot("findOne", <<>>, NoRes)

Entry(k, b, t) ==
    CASE k = "paymentRequest" -> PaymentRequestEntry(b, t)
      [] k = "upiId" -> UpiIdEntry(b)
      [] k = "paymentRequests" -> PaymentRequestsEntry
      [] k = "signup" -> SignupEntry(b)
      [] k = "registerWallet" -> RegisterWalletEntry(b)
      [] k = "updateWallet" -> UpdateWalletEntry(b)
      [] k = "health" -> HealthEntry
      [] k = "login" -> LoginEntry(b)
      [] k = "loginWallet" -> LoginWalletEntry(b)
      [] k = "contract" -> ContractEntry(b)

SetSlot(r, s) ==
    /\ pc' = [pc EXCEPT ![r] = s.pc]
    /\ local' = [local EXCEPT ![r] = s.local]
    /\ res' = [res EXCEPT ![r] = s.res]

\* A request arrives in a free slot and its handler calls connectToDatabase:
\* with the handle memoized it returns it, and the handler runs on; without,
\* it creates a client and awaits client.connect().
Arrive(r, k, b) ==
    /\ pc[r] \in {"idle", "done"}
    /\ kind' = [kind EXCEPT ![r] = k]
    /\ body' = [body EXCEPT ![r] = b]
    /\ fault' = [fault EXCEPT ![r] = "none"]
    /\ IF db # 0
       THEN /\ SetSlot(r, Entry(k, b, now))
            /\ UNCHANGED clients
       ELSE /\ clients < MaxClients
            /\ clients' = clients + 1
            /\ SetSlot(r, Slot("connect", <<>>, NoRes))
    /\ UNCHANGED <<db, store, now, lastOk, proc>>

\* client.connect() resolved: db = client.db(DB_NAME), with `client` the
\* module-level variable, which holds the client created last.
ConnectDone(r) ==
    /\ pc[r] = "connect"
    /\ db' = clients
    /\ SetSlot(r, Entry(kind[r], body[r], now))
    /\ UNCHANGED <<clients, store, now, kind, body, fault, lastOk, proc>>

\* A catch block that answers as if nothing had failed.
CaughtIgnored(r) == Slot("done", <<>>, Reply(res[r], 201, "", <<>>))

\* The catch block of a handler: console.error and the 500 envelope.
Caught(r) ==
    Slot("done", <<>>, Reply(res[r], 500, "Internal server error", <<>>))

\* The catch block of GET /api/health.
Unhealthy(r) ==
    Slot("done", <<>>,
         Reply(res[r], 500, "Database connection failed",
               <<[status |-> "unhealthy", mongodb |-> "disconnected"]>>))

\* The operation the handler awaits.
Awaited(p) == IF p = "upsertInsert" THEN "replaceOne" ELSE p

\* A catch block that compensates: it deletes the payment request that the
\* handler has inserted.
ThrowRollback(r) ==
    /\ pc[r] \notin {"idle", "done"}
    /\ fault' = [fault EXCEPT ![r] = Awaited(pc[r])]
    /\ SetSlot(r, IF kind[r] = "health" THEN Unhealthy(r) ELSE Caught(r))
    /\ paymentRequests' =
           IF kind[r] = "paymentRequest" /\ pc[r] \in {"replaceOne", "upsertInsert"}
           THEN LET KeepOthers(d) == d._id # local[r][1]._id
                IN SelectSeq(paymentRequests, KeepOthers)
           ELSE paymentRequests
    /\ UNCHANGED <<db, clients, users, upiIndex, now, kind, body, lastOk, proc>>

\* The awaited operation is rejected (the store is unreachable, the operation
\* fails): nothing is written and control passes to the catch block.
Throw(r) ==
    /\ pc[r] \notin {"idle", "done"}
    /\ fault' = [fault EXCEPT ![r] = Awaited(pc[r])]
    /\ SetSlot(r, IF kind[r] = "health" THEN Unhealthy(r) ELSE Caught(r))
    /\ UNCHANGED <<db, clients, store, now, kind, body, lastOk, proc>>

\* new Date() advances.
Tick ==
    /\ now < MaxTime
    /\ now' = now + 1
    /\ UNCHANGED <<db, clients, store, kind, body, pc, local, res, fault, lastOk, proc>>

\* ------------------------------------------------ POST /api/payment-request
PB(u, a, p, n, c) ==
    [upiId |-> u, amount |-> a, payeeName |-> p, note |-> n,
     contractRequestId |-> c, walletAddress |-> Undef, daiAmount |-> Undef,
     ethFee |-> Undef]

\* A test that takes every contractRequestId other than undefined and null.
HasContractDefined(b) == b.contractRequestId.t \notin {"undefined", "null"}

\* if (contractRequestId)
HasContract(b) == Truthy(b.contractRequestId)

\* Creations that have reached or may still reach paymentRequests.
Creating == {q \in Slots : kind[q] = "paymentRequest" /\ pc[q] \in {"connect", "insertOne"}}

\* At most max creations have reached or may still reach paymentRequests.
Room(r, max) == Len(paymentRequests) + Cardinality(Creating \ {r}) < max

PostPaymentRequest(r, b) == Arrive(r, "paymentRequest", b)

UpiIndexDoc(b, t) ==
    [_id |-> 0,
     contractRequestId |-> b.contractRequestId,
     upiId |-> b.upiId,
     payeeName |-> Or(b.payeeName, Str(<<>>)),
     note |-> Or(b.note, Str(<<>>)),
     createdAt |-> t]

\* res.status(201).json({ message, paymentRequest })
Created(r, doc) == Slot("done", <<>>, Reply(res[r], 201, "", <<doc>>))

IndexFields(d) == [upiId |-> d.upiId, payeeName |-> d.payeeName, note |-> d.note]

\* A creation that goes on to the index write without the insert.
PaymentIndexFirst(r) ==
    /\ kind[r] = "paymentRequest"
    /\ pc[r] = "insertOne"
    /\ IF HasContract(body[r])
       THEN SetSlot(r, Slot("replaceOne", <<local[r][1], UpiIndexDoc(body[r], now)>>, NoRes))
       ELSE SetSlot(r, Created(r, local[r][1]))
    /\ UNCHANGED <<db, clients, store, now, kind, body, fault, lastOk, proc>>

\* paymentRequestsCollection.insertOne(newPaymentRequest) resolved.
PaymentInsertOne(r) ==
    /\ kind[r] = "paymentRequest"
    /\ pc[r] = "insertOne"
    /\ paymentRequests' = InsertOne(paymentRequests, local[r][1])
    /\ LET doc == paymentRequests'[Len(paymentRequests')]
       IN IF HasContract(body[r])
          THEN SetSlot(r, Slot("replaceOne", <<doc, UpiIndexDoc(body[r], now)>>, NoRes))
          ELSE SetSlot(r, Created(r, doc))
    /\ UNCHANGED <<db, clients, users, upiIndex, now, kind, body, fault, lastOk, proc>>

\* The positions of the documents that match { contractRequestId: c }.
ByContract(coll, c) == {i \in 1..Len(coll) : coll[i].contractRequestId = c}

\* upiIndexCollection.replaceOne(filter, upiIndexDoc, { upsert: true }): the
\* store looks for a document matching the filter.  It replaces the first one
\* it finds, in one atomic write.  upiIndex has no unique index on
\* contractRequestId, so when it finds none the insert of the upsert is a
\* separate write: other operations of the store can come between the two.
PaymentReplaceOne(r) ==
    /\ kind[r] = "paymentRequest"
    /\ pc[r] = "replaceOne"
    /\ LET d == local[r][2]
           M == ByContract(upiIndex, d.contractRequestId)
       IN IF M # {}
          THEN /\ upiIndex' = ReplaceAt(upiIndex, Min(M), d)
               /\ SetSlot(r, Created(r, local[r][1]))
               /\ lastOk' = [lastOk EXCEPT ![d.contractRequestId] = <<IndexFields(d)>>]
          ELSE /\ pc' = [pc EXCEPT ![r] = "upsertInsert"]
               /\ UNCHANGED <<upiIndex, local, res, lastOk>>
    /\ UNCHANGED <<db, clients, users, paymentRequests, now, kind, body, fault, proc>>

\* The insert of an upsert that matched nothing.
PaymentUpsertInsert(r) ==
    /\ kind[r] = "paymentRequest"
    /\ pc[r] = "upsertInsert"
    /\ LET d == local[r][2]
       IN /\ upiIndex' = InsertOne(upiIndex, d)
          /\ SetSlot(r, Created(r, local[r][1]))
          /\ lastOk' = [lastOk EXCEPT ![d.contractRequestId] = <<IndexFields(d)>>]
    /\ UNCHANGED <<db, clients, users, paymentRequests, now, kind, body, fault, proc>>

\* ------------------------------- GET /api/upi-id/contract/:contractRequestId
GetUpiId(r, c) == Arrive(r, "upiId", [contractRequestId |-> c])

UpiFindOne(r) ==
    /\ kind[r] = "upiId"
    /\ pc[r] = "findOne"
    /\ LET c == body[r].contractRequestId
           e == FindOne(upiIndex, ByContract(upiIndex, c))
       IN IF e = <<>>
          THEN SetSlot(r, Slot("done", <<>>,
                   Reply(res[r], 404, "UPI ID not found for the given contract ID", <<>>)))
          ELSE SetSlot(r, Slot("done", <<>>,
                   Reply(res[r], 200, "",
                         <<[contractRequestId |-> c, upiId |-> e[1].upiId,
                            payeeName |-> e[1].payeeName, note |-> e[1].note]>>)))
    /\ UNCHANGED <<db, clients, store, now, kind, body, fault, lastOk, proc>>

\* ------------------------------------------------ GET /api/payment-requests
GetPaymentRequests(r) == Arrive(r, "paymentRequests", <<>>)

\* The positions of the documents that match { status: 'pending' }.
Pending(coll) == {i \in 1..Len(coll) : coll[i].status = "pending"}

\* .sort({ createdAt: 1 })
OldestFirst(a, b) == a.createdAt < b.createdAt

\* .sort({ createdAt: -1 }): a must come before b.
NewestFirst(a, b) == a.createdAt > b.createdAt

\* find(filter).sort({ createdAt: -1 }).toArray(): the positions of the matching documents
\* in an order that respects the sort; documents with equal keys come in any
\* order.
FindSorted(coll, M) ==
    {p \in [1..Cardinality(M) -> M] :
        /\ \A i, j \in DOMAIN p : i # j => p[i] # p[j]
        /\ \A i, j \in DOMAIN p : i < j => ~NewestFirst(coll[p[j]], coll[p[i]])}

\* formattedRequests
Listed(d) ==
    [id |-> d._id, upiId |-> d.upiId, amount |-> d.amount, payeeName |-> d.payeeName,
     note |-> d.note, requesterId |-> d.requesterId, status |-> d.status,
     createdAt |-> d.createdAt]

PaymentRequestsFind(r) ==
    /\ kind[r] = "paymentRequests"
    /\ pc[r] = "find"
    /\ \E p \in FindSorted(paymentRequests, Pending(paymentRequests)) :
          SetSlot(r, Slot("done", <<>>,
              Reply(res[r], 200, "", [i \in DOMAIN p |-> Listed(paymentRequests[p[i]])])))
    /\ UNCHANGED <<db, clients, store, now, kind, body, fault, lastOk, proc>>

\* ----------------------------------------------------------------- users
\* A lookup by a field that no document has: it matches nothing.
ByUserName(coll, u) == {i \in 1..Len(coll) : FALSE}

\* The positions of the documents that match { username }.
ByUsername(coll, u) == {i \in 1..Len(coll) : coll[i].username = u}

\* The positions of the documents that match { ethAddress: a }.  A document
\* without the field (undefined) matches no address.
ByAddress(coll, a) == {i \in 1..Len(coll) : coll[i].ethAddress = a}

\* The positions that match { ethAddress: a, username: { $ne: u } }.
ByAddressOfOther(coll, a, u) == {i \in ByAddress(coll, a) : coll[i].username # u}

\* User creations that have reached or may still reach users.
Joining ==
    {q \in Slots : /\ kind[q] \in {"signup", "registerWallet"}
                   /\ pc[q] \notin {"idle", "done"}}

\* The user of a response: id, username, email, createdAt, and ethAddress on
\* the wallet routes; never the password.
SignupUser(d) ==
    [id |-> d._id, username |-> d.username, email |-> d.email, createdAt |-> d.createdAt]

WalletUser(d) ==
    [id |-> d._id, username |-> d.username, email |-> d.email,
     ethAddress |-> d.ethAddress, createdAt |-> d.createdAt]

\* --------------------------------------------------------- POST /api/signup
PostSignup(r, b) ==
    /\ Len(users) + Cardinality(Joining \ {r}) < MaxUsers
    /\ Arrive(r, "signup", b)

\* usersCollection.findOne({ username }) resolved.
SignupFindOne(r) ==
    /\ kind[r] = "signup"
    /\ pc[r] = "findOne"
    /\ IF FindOne(users, ByUsername(users, body[r].username)) # <<>>
       THEN SetSlot(r, Slot("done", <<>>,
                Reply(res[r], 409, "Username already exists", <<>>)))
       ELSE SetSlot(r, Slot("insertOne",
                <<[_id |-> 0, username |-> body[r].username,
                   password |-> body[r].password, email |-> Str(<<>>),
                   ethAddress |-> Undef, createdAt |-> now, updatedAt |-> -1]>>,
                NoRes))
    /\ UNCHANGED <<db, clients, store, now, kind, body, fault, lastOk, proc>>

\* usersCollection.insertOne(newUser) resolved (signup and register-wallet).
UserInsertOne(r) ==
    /\ kind[r] \in {"signup", "registerWallet"}
    /\ pc[r] = "insertOne"
    /\ users' = InsertOne(users, local[r][1])
    /\ SetSlot(r, Slot("done", <<>>,
           Reply(res[r], 201, "",
                 <<IF kind[r] = "signup" THEN SignupUser(users'[Len(users')])
                   ELSE WalletUser(users'[Len(users')])>>)))
    /\ UNCHANGED <<db, clients, paymentRequests, upiIndex, now, kind, body, fault, lastOk, proc>>

\* ------------------------------------------------ POST /api/register-wallet
PostRegisterWallet(r, b) ==
    /\ Len(users) + Cardinality(Joining \ {r}) < MaxUsers
    /\ Arrive(r, "registerWallet", b)

\* usersCollection.findOne({ username }) resolved.
RegisterFindUsername(r) ==
    /\ kind[r] = "registerWallet"
    /\ pc[r] = "findUsername"
    /\ IF FindOne(users, ByUsername(users, body[r].username)) # <<>>
       THEN SetSlot(r, Slot("done", <<>>,
                Reply(res[r], 409, "Username already exists", <<>>)))
       ELSE SetSlot(r, Slot("findWallet", <<>>, NoRes))
    /\ UNCHANGED <<db, clients, store, now, kind, body, fault, lastOk, proc>>

\* usersCollection.findOne({ ethAddress: ethAddress.toLowerCase() }) resolved.
RegisterFindWallet(r) ==
    /\ kind[r] = "registerWallet"
    /\ pc[r] = "findWallet"
    /\ IF FindOne(users, ByAddress(users, ToLowerCase(body[r].ethAddress))) # <<>>
       THEN SetSlot(r, Slot("done", <<>>,
                Reply(res[r], 409, "This address is already registered", <<>>)))
       ELSE IF BadSignature(body[r].signature)
       THEN SetSlot(r, Slot("done", <<>>,
                Reply(res[r], 401, "Invalid signature format", <<>>)))
       ELSE SetSlot(r, Slot("insertOne",
                <<[_id |-> 0, username |-> body[r].username,
                   password |-> Str(<<>>), email |-> Str(<<>>),
                   ethAddress |-> ToLowerCase(body[r].ethAddress),
                   createdAt |-> now, updatedAt |-> -1]>>,
                NoRes))
    /\ UNCHANGED <<db, clients, store, now, kind, body, fault, lastOk, proc>>

\* -------------------------------------------------- POST /api/update-wallet
PostUpdateWallet(r, b) == Arrive(r, "updateWallet", b)

\* usersCollection.findOne({ ethAddress, username: { $ne: username } }) resolved.
UpdateFindWallet(r) ==
    /\ kind[r] = "updateWallet"
    /\ pc[r] = "findWallet"
    /\ IF FindOne(users, ByAddressOfOther(users, ToLowerCase(body[r].ethAddress),
                                          body[r].username)) # <<>>
       THEN SetSlot(r, Slot("done", <<>>,
                Reply(res[r], 409, "This address is already registered", <<>>)))
       ELSE SetSlot(r, Slot("findUser", <<>>, NoRes))
    /\ UNCHANGED <<db, clients, store, now, kind, body, fault, lastOk, proc>>

\* usersCollection.findOne({ username }) resolved: the result, existingUser
\* (local[r][2]), is only logged.  The handler builds the update (local[r][1]),
\* with updatedAt: new Date(), and issues it.
UpdateFindUser(r) ==
    /\ kind[r] = "updateWallet"
    /\ pc[r] = "findUser"
    /\ SetSlot(r, Slot("findOneAndUpdate",
           <<[ethAddress |-> ToLowerCase(body[r].ethAddress), updatedAt |-> now],
             FindOne(users, ByUsername(users, body[r].username))>>,
           NoRes))
    /\ UNCHANGED <<db, clients, store, now, kind, body, fault, lastOk, proc>>

\* An update without $set: the matched document is replaced by { ethAddress,
\* updatedAt } and loses its other fields.
UpdateReplace(r) ==
    /\ kind[r] = "updateWallet"
    /\ pc[r] = "findOneAndUpdate"
    /\ LET M == ByUsername(users, body[r].username)
       IN IF M = {}
          THEN /\ users' = users
               /\ SetSlot(r, Slot("done", <<>>,
                      Reply(res[r], 404, "User not found with username", <<>>)))
          ELSE /\ users' = [users EXCEPT ![Min(M)] =
                                [@ EXCEPT !.username = Undef, !.password = Undef,
                                          !.email = Undef, !.createdAt = -1,
                                          !.ethAddress = local[r][1].ethAddress,
                                          !.updatedAt = local[r][1].updatedAt]]
               /\ SetSlot(r, Slot("done", <<>>,
                      Reply(res[r], 200, "", <<WalletUser(users'[Min(M)])>>)))
    /\ UNCHANGED <<db, clients, paymentRequests, upiIndex, now, kind, body, fault, lastOk, proc>>

\* usersCollection.findOneAndUpdate({ username }, { $set }, { returnDocument:
\* 'after' }) resolved: result.value is the updated document, or null.
UpdateFindOneAndUpdate(r) ==
    /\ kind[r] = "updateWallet"
    /\ pc[r] = "findOneAndUpdate"
    /\ LET M == ByUsername(users, body[r].username)
       IN IF M = {}
          THEN /\ users' = users
               /\ SetSlot(r, Slot("done", <<>>,
                      Reply(res[r], 404, "User not found with username", <<>>)))
          ELSE /\ users' = [users EXCEPT ![Min(M)] =
                                [@ EXCEPT !.ethAddress = local[r][1].ethAddress,
                                          !.updatedAt = local[r][1].updatedAt]]
               /\ SetSlot(r, Slot("done", <<>>,
                      Reply(res[r], 200, "", <<WalletUser(users'[Min(M)])>>)))
    /\ UNCHANGED <<db, clients, paymentRequests, upiIndex, now, kind, body, fault, lastOk, proc>>

\* ------------------------------------------------------------ GET /api/health
GetHealth(r) == Arrive(r, "health", <<>>)

\* ---------------------------------------------------------- POST /api/login
PostLogin(r, b) == Arrive(r, "login", b)

\* A login that records its time in the user it has found.
LoginTouch(r) ==
    /\ kind[r] = "login"
    /\ pc[r] = "findOne"
    /\ LET M == ByUsername(users, body[r].username)
           user == FindOne(users, M)
       IN IF user = <<>> \/ user[1].password # body[r].password
          THEN /\ users' = users
               /\ SetSlot(r, Slot("done", <<>>,
                      Reply(res[r], 401, "Invalid username or password", <<>>)))
          ELSE /\ users' = [users EXCEPT ![Min(M)].updatedAt = now]
               /\ SetSlot(r, Slot("done", <<>>,
                      Reply(res[r], 200, "", <<SignupUser(user[1])>>)))
    /\ UNCHANGED <<db, clients, paymentRequests, upiIndex, now, kind, body, fault, lastOk, proc>>

\* usersCollection.findOne({ username }) resolved.
LoginFindOne(r) ==
    /\ kind[r] = "login"
    /\ pc[r] = "findOne"
    /\ LET user == FindOne(users, ByUsername(users, body[r].username))
       IN IF user = <<>> \/ user[1].password # body[r].password
          THEN SetSlot(r, Slot("done", <<>>,
                   Reply(res[r], 401, "Invalid username or password", <<>>)))
          ELSE SetSlot(r, Slot("done", <<>>,
                   Reply(res[r], 200, "", <<SignupUser(user[1])>>)))
    /\ UNCHANGED <<db, clients, store, now, kind, body, fault, lastOk, proc>>

\* --------------------------------------------------- POST /api/login-wallet
\* ethers.verifyMessage(message, signature): the address of the key that made
\* the signature.  Here a signature carries the address of its signer in its
\* first AddressDigits digits.
RecoveredAddress(signature) ==
    Str(<<"0", "x">> \o SubSeq(signature.s, 3, 2 + AddressDigits))

\* verifySignature(message, signature, expectedAddress)
VerifySignature(signature, expectedAddress) ==
    ToLowerCase(RecoveredAddress(signature)) = ToLowerCase(expectedAddress)

PostLoginWallet(r, b) == Arrive(r, "loginWallet", b)

\* A wallet login that verifies the signature against the address.
LoginWalletVerified(r) ==
    /\ kind[r] = "loginWallet"
    /\ pc[r] = "findOne"
    /\ LET user == FindOne(users, ByAddress(users, ToLowerCase(body[r].ethAddress)))
       IN IF user = <<>>
          THEN SetSlot(r, Slot("done", <<>>,
                   Reply(res[r], 404, "User not found. Please register first.", <<>>)))
          ELSE IF \/ BadSignature(body[r].signature)
                  \/ ~VerifySignature(body[r].signature, body[r].ethAddress)
          THEN SetSlot(r, Slot("done", <<>>,
                   Reply(res[r], 401, "Invalid signature format", <<>>)))
          ELSE SetSlot(r, Slot("done", <<>>,
                   Reply(res[r], 200, "", <<WalletUser(user[1])>>)))
    /\ UNCHANGED <<db, clients, store, now, kind, body, fault, lastOk, proc>>

\* usersCollection.findOne({ ethAddress: ethAddress.toLowerCase() }) resolved.
LoginWalletFindOne(r) ==
    /\ kind[r] = "loginWallet"
    /\ pc[r] = "findOne"
    /\ LET user == FindOne(users, ByAddress(users, ToLowerCase(body[r].ethAddress)))
       IN IF user = <<>>
          THEN SetSlot(r, Slot("done", <<>>,
                   Reply(res[r], 404, "User not found. Please register first.", <<>>)))
          ELSE IF BadSignature(body[r].signature)
          THEN SetSlot(r, Slot("done", <<>>,
                   Reply(res[r], 401, "Invalid signature format", <<>>)))
          ELSE SetSlot(r, Slot("done", <<>>,
                   Reply(res[r], 200, "", <<WalletUser(user[1])>>)))
    /\ UNCHANGED <<db, clients, store, now, kind, body, fault, lastOk, proc>>

\* --------------------- GET /api/payment-request/contract/:contractRequestId
GetPaymentRequest(r, c) == Arrive(r, "contract", [contractRequestId |-> c])

\* formattedRequest
Formatted(d) ==
    [id |-> d._id, upiId |-> d.upiId, amount |-> d.amount, payeeName |-> d.payeeName,
     note |-> d.note, contractRequestId |-> d.contractRequestId,
     walletAddress |-> d.walletAddress, daiAmount |-> d.daiAmount,
     ethFee |-> d.ethFee, requesterId |-> d.requesterId, status |-> d.status,
     createdAt |-> d.createdAt]

\* paymentRequestsCollection.findOne({ contractRequestId }) resolved.
ContractFindOne(r) ==
    /\ kind[r] = "contract"
    /\ pc[r] = "findOne"
    /\ LET d == FindOne(paymentRequests,
                        ByContract(paymentRequests, body[r].contractRequestId))
       IN IF d = <<>>
          THEN SetSlot(r, Slot("done", <<>>,
                   Reply(res[r], 404, "Payment request not found for the given contract ID",
                         <<>>)))
          ELSE SetSlot(r, Slot("done", <<>>, Reply(res[r], 200, "", <<Formatted(d[1])>>)))
    /\ UNCHANGED <<db, clients, store, now, kind, body, fault, lastOk, proc>>

\* ------------------------------------------------------------ input values
UpiA == Str(<<"a", "@", "u">>)
UpiB == Str(<<"b", "@", "u">>)
Pat == Str(<<"P", "a", "t">>)
Rent == Str(<<"r", "e", "n", "t">>)
Cid1 == Str(<<"c", "1">>)
Cid2 == Str(<<"c", "2">>)

Alice == Str(<<"a", "l", "i", "c", "e">>)
Bob == Str(<<"b", "o", "b">>)
Secret == Str(<<"s", "e", "c", "r", "e", "t">>)
Hunter2 == Str(<<"h", "u", "n", "t", "e", "r", "2">>)
Abc == Str(<<"a", "b", "c">>)
AddrA == Str(<<"0", "x">> \o Rep("a", AddressDigits))
AddrAUpper == Str(<<"0", "x">> \o Rep("A", AddressDigits))
AddrB == Str(<<"0", "x">> \o Rep("b", AddressDigits))
Sig == Str(<<"0", "x">> \o Rep("1", SignatureLength - 2))

\* The contract request identifiers of the requests.
ContractIds == {Cid1, Cid2}

\* ------------------------------------------------------------------- Init
Init ==
    /\ db = 0
    /\ clients = 0
    /\ users = <<>>
    /\ paymentRequests = <<>>
    /\ upiIndex = <<>>
    /\ now = 0
    /\ kind = [r \in Slots |-> "none"]
    /\ body = [r \in Slots |-> <<>>]
    /\ pc = [r \in Slots |-> "idle"]
    /\ local = [r \in Slots |-> <<>>]
    /\ res = [r \in Slots |-> NoRes]
    /\ fault = [r \in Slots |-> "none"]
    /\ lastOk = [c \in ContractIds |-> <<>>]
    /\ proc = "lazy"

\* ----------------------------------------- the upiIndex of concurrent requests
IndexBodies ==
    {PB(UpiA, Num(10), Pat, Rent, Cid1),
     PB(UpiB, Num(10), Undef, Undef, Cid1),
     PB(UpiB, Num(10), Pat, Undef, Cid2),
     PB(UpiA, Num(10), Undef, Rent, Undef)}

NextIndex ==
    \E r \in Slots :
        \/ \E b \in IndexBodies : Room(r, MaxIndexed) /\ PostPaymentRequest(r, b)
        \/ \E c \in ContractIds : GetUpiId(r, c)
        \/ ConnectDone(r)
        \/ PaymentInsertOne(r)
        \/ PaymentReplaceOne(r)
        \/ PaymentUpsertInsert(r)
        \/ UpiFindOne(r)
        \/ Throw(r)

SpecIndex == Init /\ [][NextIndex]_vars

\* ------------------------------------- the validation of a payment request
Ten == Str(<<"1", "0">>)

ValidationBodies ==
    {PB(UpiA, Num(10), Pat, Undef, c) : c \in {Undef, Null, Str(<<>>), Num(0), Cid1}}
    \cup {PB(UpiA, a, Pat, Undef, Cid1) : a \in {Undef, Num(0), Num(-5), Ten}}
    \cup {PB(Undef, Num(10), Pat, Undef, Cid1)}

NextValidation ==
    \E r \in Slots :
        \/ \E b \in ValidationBodies : Room(r, MaxPayments) /\ PostPaymentRequest(r, b)
        \/ GetUpiId(r, Cid1)
        \/ ConnectDone(r)
        \/ PaymentInsertOne(r)
        \/ PaymentReplaceOne(r)
        \/ PaymentUpsertInsert(r)
        \/ UpiFindOne(r)
        \/ Throw(r)

SpecValidation == Init /\ [][NextValidation]_vars

\* ------------------------------------------- the listing of payment requests
Wallet == Str(<<"0", "x", "w">>)

ListBodies ==
    {[PB(UpiB, Num(5), Undef, Rent, Undef) EXCEPT
         !.walletAddress = Wallet, !.daiAmount = Num(3), !.ethFee = Num(1)]}

NextList ==
    \/ Tick
    \/ \E r \in Slots :
        \/ \E b \in ListBodies : Room(r, MaxListed) /\ PostPaymentRequest(r, b)
        \/ GetPaymentRequests(r)
        \/ ConnectDone(r)
        \/ PaymentInsertOne(r)
        \/ PaymentRequestsFind(r)
        \/ Throw(r)

SpecList == Init /\ [][NextList]_vars

\* ------------------------------------------------------ the users collection
SignupBodies == [username : {Alice, Bob}, password : {Secret}]

RegisterBodies == [ethAddress : {AddrA, AddrAUpper}, signature : {Sig}, username : {Alice, Bob}]

UpdateBodies == [ethAddress : {AddrA, AddrB}, username : {Alice, Bob}]

\* Signup and wallet registration, concurrently.
NextUsernames ==
    \E r \in Slots :
        \/ \E b \in SignupBodies : PostSignup(r, b)
        \/ \E b \in RegisterBodies : PostRegisterWallet(r, b)
        \/ ConnectDone(r)
        \/ SignupFindOne(r)
        \/ RegisterFindUsername(r)
        \/ RegisterFindWallet(r)
        \/ UserInsertOne(r)
        \/ Throw(r)

SpecUsernames == Init /\ [][NextUsernames]_vars

\* Wallet registration and wallet update, concurrently.
NextWallets ==
    \E r \in Slots :
        \/ \E b \in RegisterBodies : PostRegisterWallet(r, b)
        \/ \E b \in UpdateBodies : PostUpdateWallet(r, b)
        \/ ConnectDone(r)
        \/ RegisterFindUsername(r)
        \/ RegisterFindWallet(r)
        \/ UserInsertOne(r)
        \/ UpdateFindWallet(r)
        \/ UpdateFindUser(r)
        \/ UpdateFindOneAndUpdate(r)
        \/ Throw(r)

SpecWallets == Init /\ [][NextWallets]_vars

\* No handler is between its arrival and its response.
Quiet == \A q \in Slots : pc[q] \in {"idle", "done"}

\* The same requests, one after the other: a request arrives only when every
\* earlier one has been answered.
NextSeq ==
    \E r \in Slots :
        \/ \E b \in IndexBodies : Quiet /\ Room(r, MaxIndexed) /\ PostPaymentRequest(r, b)
        \/ \E c \in ContractIds : Quiet /\ GetUpiId(r, c)
        \/ ConnectDone(r)
        \/ PaymentInsertOne(r)
        \/ PaymentReplaceOne(r)
        \/ PaymentUpsertInsert(r)
        \/ UpiFindOne(r)
        \/ Throw(r)

SpecSeq == Init /\ [][NextSeq]_vars

\* Signups, one after the other.
SignupSeqBodies == [username : {Alice, Bob}, password : {Secret, Hunter2, Abc}]

NextSignupSeq ==
    \E r \in Slots :
        \/ \E b \in SignupSeqBodies : Quiet /\ PostSignup(r, b)
        \/ ConnectDone(r)
        \/ SignupFindOne(r)
        \/ UserInsertOne(r)
        \/ Throw(r)

SpecSignupSeq == Init /\ [][NextSignupSeq]_vars

\* ------------------------------------------------------------------ claims
\* C1: in every reachable state upiIndex holds at most one entry per
\* contractRequestId, also when creations with the same contractRequestId
\* run concurrently.
C1_OneEntryPerContract ==
    \A i, j \in 1..Len(upiIndex) :
        i # j => upiIndex[i].contractRequestId # upiIndex[j].contractRequestId

\* C2: after successful creations with the same contractRequestId k that do
\* not overlap, GET /api/upi-id/contract/k answers 200 with exactly the upiId,
\* payeeName and note of the latest of them (an omitted payeeName or note is
\* the empty string), and 404 when there was none.
C2_LatestCreationOnly ==
    [][\A r \in Slots :
          (kind[r] = "upiId" /\ pc[r] = "findOne" /\ pc'[r] = "done" /\ fault'[r] = "none")
          => LET c == body[r].contractRequestId
             IN IF lastOk[c] = <<>>
                THEN res'[r].status = 404
                ELSE /\ res'[r].status = 200
                     /\ res'[r].data = <<[contractRequestId |-> c,
                                          upiId |-> lastOk[c][1].upiId,
                                          payeeName |-> lastOk[c][1].payeeName,
                                          note |-> lastOk[c][1].note]>>]_vars

\* Cid2 witness: the lookup of c1 is answered with an empty payeeName and note
\* after two creations for c1, the earlier of which named a payee and a note.
C2_Witness ==
    \E r \in Slots :
        /\ kind[r] = "upiId" /\ pc[r] = "done" /\ res[r].status = 200
        /\ body[r].contractRequestId = Cid1
        /\ res[r].data[1].upiId = UpiB
        /\ res[r].data[1].payeeName = Str(<<>>)
        /\ res[r].data[1].note = Str(<<>>)
        /\ lastOk[Cid1] = <<[upiId |-> UpiB, payeeName |-> Str(<<>>), note |-> Str(<<>>)]>>
        /\ \E i, j \in 1..Len(paymentRequests) :
              /\ i < j
              /\ paymentRequests[i].contractRequestId = Cid1
              /\ paymentRequests[i].payeeName = Pat
              /\ paymentRequests[j].contractRequestId = Cid1
              /\ paymentRequests[j].payeeName = Str(<<>>)

\* C4: a creation writes upiIndex only when its own document is in
\* paymentRequests, a creation whose insert failed is answered without an
\* index write, and every upiIndex entry has a payment request with the same
\* contractRequestId, upiId, payeeName and note.
C4_IndexAfterInsert ==
    /\ \A r \in Slots :
          (kind[r] = "paymentRequest" /\ pc[r] \in {"replaceOne", "upsertInsert"})
          => /\ local[r][1]._id \in 1..Len(paymentRequests)
             /\ paymentRequests[local[r][1]._id] = local[r][1]
    /\ \A r \in Slots :
          (kind[r] = "paymentRequest" /\ fault[r] = "insertOne")
          => pc[r] = "done" /\ res[r].status = 500
    /\ \A i \in 1..Len(upiIndex) :
          \E j \in 1..Len(paymentRequests) :
              /\ paymentRequests[j].contractRequestId = upiIndex[i].contractRequestId
              /\ paymentRequests[j].upiId = upiIndex[i].upiId
              /\ paymentRequests[j].payeeName = upiIndex[i].payeeName
              /\ paymentRequests[j].note = upiIndex[i].note

\* C4 witness: an index entry has been written and another creation's insert
\* has failed.
C4_Witness ==
    /\ upiIndex # <<>>
    /\ \E r \in Slots : kind[r] = "paymentRequest" /\ fault[r] = "insertOne"

\* C5: a creation whose upiIndex upsert failed is answered once, with the 500
\* 'Internal server error' envelope, never with 201.
C5_UpsertFailureIs500 ==
    \A r \in Slots :
        /\ res[r].sent <= 1
        /\ (kind[r] = "paymentRequest" /\ fault[r] = "replaceOne")
           => /\ pc[r] = "done"
              /\ res[r].sent = 1
              /\ res[r].status = 500
              /\ res[r].error = "Internal server error"

\* C5 witness: the upsert of a creation failed after its insert succeeded.
C5_Witness ==
    \E r \in Slots :
        /\ kind[r] = "paymentRequest" /\ fault[r] = "replaceOne"
        /\ res[r].sent = 1
        /\ \E j \in 1..Len(paymentRequests) :
              paymentRequests[j].contractRequestId = body[r].contractRequestId

\* The step is a step of the request in slot r.
Stepped(r) == <<kind[r], body[r], pc[r], res[r], fault[r]>>' # <<kind[r], body[r], pc[r], res[r], fault[r]>>

\* undefined, null, '' and 0
Falsy == {Undef, Null, Str(<<>>), Num(0)}

\* C3: a creation whose contractRequestId is absent or falsy never changes
\* upiIndex, its insert stores the request with contractRequestId = null and
\* it is answered 201; and while no stored payment request carries a contract
\* identifier, GET /api/upi-id/contract/:id answers 404.
C3_NoContractNoIndex ==
    [][\A r \in Slots :
          /\ (Stepped(r) /\ kind'[r] = "paymentRequest" /\ body'[r].contractRequestId \in Falsy)
             => /\ upiIndex' = upiIndex
                /\ (pc[r] = "insertOne" /\ fault'[r] = "none")
                   => /\ Len(paymentRequests') = Len(paymentRequests) + 1
                      /\ paymentRequests'[Len(paymentRequests')].contractRequestId = Null
                      /\ pc'[r] = "done"
                      /\ res'[r].status = 201
                      /\ res'[r].data[1].contractRequestId = Null
          /\ (/\ kind[r] = "upiId" /\ pc[r] = "findOne" /\ pc'[r] = "done" /\ fault'[r] = "none"
              /\ \A j \in 1..Len(paymentRequests) : paymentRequests[j].contractRequestId = Null)
             => res'[r].status = 404]_vars

\* C3 witness: creations with contractRequestId 0 and '' have been answered
\* 201, upiIndex is empty and a lookup has been answered 404.
C3_Witness ==
    /\ upiIndex = <<>>
    /\ Len(paymentRequests) = 2
    /\ \E r, q \in Slots :
          /\ kind[r] = "paymentRequest" /\ pc[r] = "done" /\ res[r].status = 201
          /\ body[r].contractRequestId = Num(0)
          /\ kind[q] = "upiId" /\ pc[q] = "done" /\ res[q].status = 404

\* amount is of number type and > 0
PositiveNumber(a) == a.t = "number" /\ a.n > 0

\* C9: a creation with a non-empty upiId whose amount is not a positive number
\* is answered 400 and no step of it writes to the store; one whose amount is
\* a positive number is answered 201 with a stored document of status
\* 'pending', when no operation it awaits fails.
C9_AmountValidation ==
    [][\A r \in Slots :
          (Stepped(r) /\ kind'[r] = "paymentRequest" /\ Truthy(body'[r].upiId))
          => IF ~PositiveNumber(body'[r].amount)
             THEN /\ store' = store
                  /\ pc'[r] \in {"connect", "done"}
                  /\ (pc'[r] = "done" /\ fault'[r] = "none")
                     => res'[r].status = 400 /\ res'[r].sent = 1
             ELSE (pc'[r] = "done" /\ fault'[r] = "none")
                  => /\ res'[r].status = 201 /\ res'[r].sent = 1
                     /\ res'[r].data[1].status = "pending"
                     /\ res'[r].data[1].amount = body'[r].amount
                     /\ res'[r].data[1]._id \in 1..Len(paymentRequests')
                     /\ paymentRequests'[res'[r].data[1]._id] = res'[r].data[1]]_vars

\* C9 witness: the amount '10' has been answered 400 and the amount 10 has
\* been answered 201, with one document stored.
C9_Witness ==
    /\ Len(paymentRequests) = 1
    /\ paymentRequests[1].status = "pending"
    /\ \E r, q \in Slots :
          /\ kind[r] = "paymentRequest" /\ body[r].amount = Ten
          /\ pc[r] = "done" /\ res[r].status = 400
          /\ kind[q] = "paymentRequest" /\ body[q].amount = Num(10)
          /\ pc[q] = "done" /\ res[q].status = 201

\* data lists each pending document of coll once, as the handler formats it,
\* newest first.
ListingOf(data, coll) ==
    /\ Len(data) = Cardinality({i \in 1..Len(coll) : coll[i].status = "pending"})
    /\ \A i \in 1..Len(coll) :
          coll[i].status = "pending"
          => \E j \in 1..Len(data) :
                /\ data[j].id = coll[i]._id
                /\ data[j].upiId = coll[i].upiId
                /\ data[j].amount = coll[i].amount
                /\ data[j].payeeName = coll[i].payeeName
                /\ data[j].note = coll[i].note
                /\ data[j].requesterId = coll[i].requesterId
                /\ data[j].createdAt = coll[i].createdAt
    /\ \A j \in 1..Len(data) : data[j].status = "pending"
    /\ \A j, k \in 1..Len(data) : j < k => data[j].createdAt >= data[k].createdAt

\* C10: GET /api/payment-requests answers with exactly the pending documents
\* of paymentRequests, each once, ordered by createdAt descending.
C10_PendingNewestFirst ==
    [][\A r \in Slots :
          (kind[r] = "paymentRequests" /\ pc[r] = "find" /\ pc'[r] = "done" /\ fault'[r] = "none")
          => /\ res'[r].status = 200
             /\ ListingOf(res'[r].data, paymentRequests)]_vars

\* C10 witness: a listing of three documents created at distinct times, in
\* which a document inserted later (larger id) but created earlier comes after
\* one inserted before it.
C10_Witness ==
    \E r \in Slots :
        /\ kind[r] = "paymentRequests" /\ pc[r] = "done" /\ res[r].status = 200
        /\ Len(res[r].data) = 3
        /\ res[r].data[1].createdAt > res[r].data[2].createdAt
        /\ res[r].data[2].createdAt > res[r].data[3].createdAt
        /\ res[r].data[2].id < res[r].data[3].id

\* C6: of two signups with the same username and passwords of length >= 6
\* that do not overlap, starting without such a user, the first is answered
\* 201 and inserts one user, the second 409 and inserts nothing: a signup
\* that finds its username taken answers 409 and leaves users as they are,
\* one that does not adds exactly one user of that name and answers 201.
C6_SecondSignupConflicts ==
    [][\A r \in Slots :
          (/\ Stepped(r) /\ kind'[r] = "signup" /\ Len(body'[r].password.s) >= 6
           /\ pc'[r] = "done" /\ fault'[r] = "none")
          => IF \E i \in 1..Len(users) : users[i].username = body'[r].username
             THEN res'[r].status = 409 /\ users' = users
             ELSE /\ res'[r].status = 201
                  /\ Len(users') = Len(users) + 1
                  /\ SubSeq(users', 1, Len(users)) = users
                  /\ users'[Len(users')].username = body'[r].username
                  /\ users'[Len(users')].password = body'[r].password]_vars

\* C6 witness: alice signed up with one password (201, one user stored), and a
\* second signup of alice with another valid password was answered 409.
C6_Witness ==
    /\ Cardinality({i \in 1..Len(users) : users[i].username = Alice}) = 1
    /\ \E r, q \in Slots :
          /\ kind[r] = "signup" /\ body[r].username = Alice /\ pc[r] = "done"
          /\ res[r].status = 201
          /\ kind[q] = "signup" /\ body[q].username = Alice /\ pc[q] = "done"
          /\ res[q].status = 409
          /\ body[q].password # body[r].password

\* C7: in every reachable state no two documents of users have the same
\* username, for any interleaving of concurrent signups and wallet
\* registrations.
C7_UniqueUsername ==
    \A i, j \in 1..Len(users) : i # j => users[i].username # users[j].username

\* C8: in every reachable state no two documents of users have the same
\* ethAddress, for any interleaving of concurrent wallet registrations and
\* wallet updates.
C8_UniqueEthAddress ==
    \A i, j \in 1..Len(users) :
        (i # j /\ users[i].ethAddress # Undef) => users[i].ethAddress # users[j].ethAddress

\* C11: POST /api/update-wallet is answered 404, never 200, and leaves users
\* unchanged whenever its existence lookup found no user of the username or
\* its findOneAndUpdate matches none.
C11_UnknownUserIs404 ==
    [][\A r \in Slots :
          (/\ kind[r] = "updateWallet" /\ pc[r] = "findOneAndUpdate"
           /\ pc'[r] = "done" /\ fault'[r] = "none"
           /\ \/ local[r][2] = <<>>
              \/ \A i \in 1..Len(users) : users[i].username # body[r].username)
          => res'[r].status = 404 /\ users' = users]_vars

\* ------------------------------------------------- the connection to the store
LoginBodies == [username : {Alice}, password : {Secret}]

\* Requests of a process that connects on first use.
NextConnect ==
    \E r \in Slots :
        \/ GetHealth(r)
        \/ GetPaymentRequests(r)
        \/ \E b \in LoginBodies : PostLogin(r, b)
        \/ ConnectDone(r)
        \/ PaymentRequestsFind(r)
        \/ LoginFindOne(r)
        \/ Throw(r)

SpecConnect == Init /\ [][NextConnect]_vars

\* C12: connectToDatabase connects at most one client in the lifetime of the
\* process (a client.connect() resolves only while no handle is memoized), and
\* a memoized handle is never replaced, also when requests arrive before the
\* first connection has completed.
C12_OneClient ==
    [][/\ \A r \in Slots :
             (pc[r] = "connect" /\ pc'[r] # "connect" /\ fault'[r] = "none") => db = 0
       /\ db # 0 => db' = db]_vars

\* ------------------------------------ the variant that connects when it starts
\* The module has been loaded: MongoClient.connect(MONGODB_URI) is pending and
\* the server listens.
InitEager ==
    /\ db = 0
    /\ clients = 1
    /\ users = <<>>
    /\ paymentRequests = <<>>
    /\ upiIndex = <<>>
    /\ now = 0
    /\ kind = [r \in Slots |-> "none"]
    /\ body = [r \in Slots |-> <<>>]
    /\ pc = [r \in Slots |-> "idle"]
    /\ local = [r \in Slots |-> <<>>]
    /\ res = [r \in Slots |-> NoRes]
    /\ fault = [r \in Slots |-> "none"]
    /\ lastOk = [c \in ContractIds |-> <<>>]
    /\ proc = "starting"

\* .then(client => { db = client.db(DB_NAME) })
EagerConnected ==
    /\ proc = "starting"
    /\ proc' = "serving"
    /\ db' = clients
    /\ UNCHANGED <<clients, store, now, kind, body, pc, local, res, fault, lastOk>>

\* A catch that only logs the error: the process serves on without a handle.
EagerConnectLogged ==
    /\ proc = "starting"
    /\ proc' = "serving"
    /\ UNCHANGED <<db, clients, store, now, kind, body, pc, local, res, fault, lastOk>>

\* .catch(error => { console.error(...); process.exit(1) })
EagerConnectFailed ==
    /\ proc = "starting"
    /\ proc' = "exited"
    /\ UNCHANGED <<db, clients, store, now, kind, body, pc, local, res, fault, lastOk>>

\* A request arrives at the variant that connects when it starts: its handler
\* validates the body and calls db.collection(...), which throws a TypeError
\* into the catch block while db is undefined.
EagerArrive(r, k, b) ==
    /\ proc \in {"starting", "serving"}
    /\ pc[r] \in {"idle", "done"}
    /\ kind' = [kind EXCEPT ![r] = k]
    /\ body' = [body EXCEPT ![r] = b]
    /\ IF db = 0 /\ Entry(k, b, now).pc # "done"
       THEN /\ fault' = [fault EXCEPT ![r] = "collection"]
            /\ SetSlot(r, Slot("done", <<>>,
                   Reply(NoRes, 500, "Internal server error", <<>>)))
       ELSE /\ fault' = [fault EXCEPT ![r] = "none"]
            /\ SetSlot(r, Entry(k, b, now))
    /\ UNCHANGED <<db, clients, store, now, lastOk, proc>>

StartSignupBodies == [username : {Alice}, password : {Secret, Abc}]

\* Requests of either variant, from the start of the process.
NextStart ==
    \/ EagerConnected
    \/ EagerConnectFailed
    \/ \E r \in Slots :
          /\ proc # "exited"
          /\ \/ proc = "lazy" /\ GetHealth(r)
             \/ proc = "lazy" /\ GetPaymentRequests(r)
             \/ \E b \in StartSignupBodies : proc = "lazy" /\ PostSignup(r, b)
             \/ EagerArrive(r, "paymentRequests", <<>>)
             \/ \E b \in StartSignupBodies :
                   /\ Len(users) + Cardinality(Joining \ {r}) < MaxUsers
                   /\ EagerArrive(r, "signup", b)
             \/ ConnectDone(r)
             \/ PaymentRequestsFind(r)
             \/ SignupFindOne(r)
             \/ UserInsertOne(r)
             \/ Throw(r)

SpecStart == (Init \/ InitEager) /\ [][NextStart]_vars

\* C13: in the variant that connects on first use, a request whose connection
\* fails is answered once, with status 500, the process keeps serving, no
\* collection changes and no handle is memoized, so that a request that
\* arrives while db is unset attempts the connection again; in the variant
\* that connects when it starts, a failed connection ends the process, which
\* takes no further step.
C13_ConnectFailure ==
    [][/\ \A r \in Slots :
             (pc[r] = "connect" /\ fault'[r] = "connect")
             => /\ pc'[r] = "done" /\ res'[r].status = 500 /\ res'[r].sent = 1
                /\ store' = store
                /\ db' = db
                /\ proc' = "lazy"
       /\ \A r \in Slots :
             (proc = "lazy" /\ db = 0 /\ pc[r] \in {"idle", "done"} /\ Stepped(r))
             => pc'[r] = "connect" /\ clients' = clients + 1
       /\ (proc = "starting" /\ proc' # "starting")
          => IF db' = 0 THEN proc' = "exited" ELSE proc' = "serving"
       /\ proc # "exited"]_vars

\* C13 witness: a request whose connection failed has been answered 500, db
\* was left unset, and a request that arrived after that answer has connected
\* a second client and been answered 200; no collection has changed.
C13_Witness ==
    /\ proc = "lazy"
    /\ db = 2
    /\ store = <<<<>>, <<>>, <<>>>>
    /\ \E r, q \in Slots :
          /\ fault[r] = "connect" /\ pc[r] = "done" /\ res[r].status = 500
          /\ kind[q] = "health" /\ pc[q] = "done" /\ res[q].status = 200

\* C14: whenever no POST /api/payment-request handler is in progress, every
\* payment request with a non-null contractRequestId k has an upiIndex entry
\* with contractRequestId k, and every upiIndex entry has such a payment
\* request.
C14_IndexedIffContract ==
    (\A q \in Slots : kind[q] = "paymentRequest" => pc[q] \in {"idle", "done"})
    => /\ \A j \in 1..Len(paymentRequests) :
             paymentRequests[j].contractRequestId # Null
             => \E i \in 1..Len(upiIndex) :
                   upiIndex[i].contractRequestId = paymentRequests[j].contractRequestId
       /\ \A i \in 1..Len(upiIndex) :
             \E j \in 1..Len(paymentRequests) :
                 /\ paymentRequests[j].contractRequestId # Null
                 /\ paymentRequests[j].contractRequestId = upiIndex[i].contractRequestId

\* ------------------------------------------- a creation whose upsert fails
FailureBodies ==
    {PB(UpiA, Num(10), Pat, Rent, Cid1),
     PB(UpiB, Num(10), Undef, Undef, Cid1)}

NextFailure ==
    \E r \in Slots :
        \/ \E b \in FailureBodies : Room(r, MaxIndexed) /\ PostPaymentRequest(r, b)
        \/ GetPaymentRequests(r)
        \/ GetPaymentRequest(r, Cid1)
        \/ ConnectDone(r)
        \/ PaymentInsertOne(r)
        \/ PaymentReplaceOne(r)
        \/ PaymentUpsertInsert(r)
        \/ PaymentRequestsFind(r)
        \/ ContractFindOne(r)
        \/ Throw(r)

SpecFailure == Init /\ [][NextFailure]_vars

\* The step is the rejection of the upiIndex upsert of the creation in slot r.
UpsertFails(r) ==
    /\ kind[r] = "paymentRequest"
    /\ pc[r] \in {"replaceOne", "upsertInsert"}
    /\ fault'[r] = "replaceOne"

\* The creation is answered 500, no collection changes, and the inserted
\* payment request is where the insert put it.
Uncompensated(r) ==
    /\ pc'[r] = "done" /\ res'[r].status = 500
    /\ store' = store
    /\ local[r][1]._id \in 1..Len(paymentRequests')
    /\ paymentRequests'[local[r][1]._id] = local[r][1]

\* No step removes or changes a stored payment request.
Stays == SubSeq(paymentRequests', 1, Len(paymentRequests)) = paymentRequests

\* The step is the answer of the request of route k in slot r.
Answers(r, k, p) == kind[r] = k /\ pc[r] = p /\ pc'[r] = "done" /\ fault'[r] = "none"

\* C15 (as stated): when the upiIndex upsert of a creation fails after its
\* insert, the creation is answered 500, the inserted payment request stays
\* in paymentRequests and upiIndex keeps what it had; GET /api/payment-requests
\* lists it, and GET /api/payment-request/contract/:id with its
\* contractRequestId answers with it.
C15_NoCompensation ==
    [][\A r \in Slots :
          /\ UpsertFails(r) => Uncompensated(r)
          /\ Stays
          /\ Answers(r, "paymentRequests", "find")
             => ListingOf(res'[r].data, paymentRequests)
          /\ Answers(r, "contract", "findOne")
             => \A q \in Slots :
                   (/\ kind[q] = "paymentRequest" /\ fault[q] = "replaceOne"
                    /\ body[q].contractRequestId = body[r].contractRequestId)
                   => /\ res'[r].status = 200
                      /\ res'[r].data[1].upiId = body[q].upiId
                      /\ res'[r].data[1].payeeName = Or(body[q].payeeName, Str(<<>>))
                      /\ res'[r].data[1].note = Or(body[q].note, Str(<<>>))]_vars

\* C15 (amended): when the upiIndex upsert of a creation fails after its
\* insert, the creation is answered 500, the inserted payment request stays
\* in paymentRequests and upiIndex keeps what it had; GET /api/payment-requests
\* lists every stored payment request, and GET
\* /api/payment-request/contract/:id answers with the first stored payment
\* request of that contractRequestId, which is the one of the failed creation
\* only when no earlier payment request has the same contractRequestId.
C15_NoCompensationFirstMatch ==
    [][\A r \in Slots :
          /\ UpsertFails(r) => Uncompensated(r)
          /\ Stays
          /\ Answers(r, "paymentRequests", "find")
             => ListingOf(res'[r].data, paymentRequests)
          /\ Answers(r, "contract", "findOne")
             => LET c == body[r].contractRequestId
                    S == {j \in 1..Len(paymentRequests) :
                             paymentRequests[j].contractRequestId = c}
                IN IF S = {}
                   THEN res'[r].status = 404
                   ELSE /\ res'[r].status = 200
                        /\ \E j \in S :
                              /\ \A k \in S : j <= k
                              /\ res'[r].data[1].id = j
                              /\ res'[r].data[1].upiId = paymentRequests[j].upiId
                              /\ res'[r].data[1].payeeName = paymentRequests[j].payeeName
                              /\ res'[r].data[1].note = paymentRequests[j].note
                              /\ res'[r].data[1].status = "pending"]_vars

\* C15 witness: the upsert of the only creation failed (500), its payment
\* request is stored, upiIndex has no entry, and the lookup by its
\* contractRequestId has been answered with it.
C15_Witness ==
    /\ Len(paymentRequests) = 1
    /\ upiIndex = <<>>
    /\ \E r, q \in Slots :
          /\ kind[q] = "paymentRequest" /\ fault[q] = "replaceOne"
          /\ pc[q] = "done" /\ res[q].status = 500
          /\ kind[r] = "contract" /\ pc[r] = "done" /\ res[r].status = 200
          /\ res[r].data[1].id = paymentRequests[1]._id
          /\ res[r].data[1].upiId = body[q].upiId

\* C16: after two interleaved creations with the same contractRequestId have
\* both been answered 201, upiIndex holds a single entry for it, whose upiId,
\* payeeName and note are those of the creation whose index write the store
\* applied last; and no entry ever mixes the fields of two requests.
C16_LastWriterWins ==
    /\ \A r, q \in Slots :
          (/\ r # q
           /\ kind[r] = "paymentRequest" /\ pc[r] = "done" /\ res[r].status = 201
           /\ kind[q] = "paymentRequest" /\ pc[q] = "done" /\ res[q].status = 201
           /\ body[r].contractRequestId \in ContractIds
           /\ body[q].contractRequestId = body[r].contractRequestId)
          => LET k == body[r].contractRequestId
                 E == {i \in 1..Len(upiIndex) : upiIndex[i].contractRequestId = k}
             IN /\ Cardinality(E) = 1
                /\ \A i \in E :
                      /\ upiIndex[i].upiId = lastOk[k][1].upiId
                      /\ upiIndex[i].payeeName = lastOk[k][1].payeeName
                      /\ upiIndex[i].note = lastOk[k][1].note
    /\ \A i \in 1..Len(upiIndex) :
          \E b \in IndexBodies :
              /\ upiIndex[i].upiId = b.upiId
              /\ upiIndex[i].payeeName = Or(b.payeeName, Str(<<>>))
              /\ upiIndex[i].note = Or(b.note, Str(<<>>))

\* ------------------------------------------------------------ the whole API
MaxApi == 1

MaxApiUsers == 1

ApiPayments == {PB(UpiA, Num(10), Pat, Rent, Cid1), PB(UpiA, Num(0), Pat, Rent, Cid1)}

ApiSignups == [username : {Alice}, password : {Secret}]

ApiRegisters == [ethAddress : {AddrA}, signature : {Sig}, username : {Bob}]

ApiUpdates == [ethAddress : {AddrA}, username : {Alice}]

ApiLogins == [username : {Alice}, password : {Secret}]

ApiWalletLogins == [ethAddress : {AddrA}, signature : {Sig}]

\* At most max users have reached or may still reach users.
UserRoom(r, max) == Len(users) + Cardinality(Joining \ {r}) < max

\* Every route that reads or writes a collection, concurrently, in a process
\* that has connected.
NextApi ==
    \E r \in Slots :
        \/ \E b \in ApiPayments : Room(r, MaxApi) /\ PostPaymentRequest(r, b)
        \/ \E b \in ApiSignups : UserRoom(r, MaxApiUsers) /\ PostSignup(r, b)
        \/ \E b \in ApiRegisters : UserRoom(r, MaxApiUsers) /\ PostRegisterWallet(r, b)
        \/ \E b \in ApiUpdates : PostUpdateWallet(r, b)
        \/ \E b \in ApiLogins : PostLogin(r, b)
        \/ \E b \in ApiWalletLogins : PostLoginWallet(r, b)
        \/ GetUpiId(r, Cid1)
        \/ GetPaymentRequest(r, Cid1)
        \/ GetPaymentRequests(r)
        \/ PaymentInsertOne(r)
        \/ PaymentReplaceOne(r)
        \/ PaymentUpsertInsert(r)
        \/ UpiFindOne(r)
        \/ ContractFindOne(r)
        \/ PaymentRequestsFind(r)
        \/ SignupFindOne(r)
        \/ RegisterFindUsername(r)
        \/ RegisterFindWallet(r)
        \/ UserInsertOne(r)
        \/ UpdateFindWallet(r)
        \/ UpdateFindUser(r)
        \/ UpdateFindOneAndUpdate(r)
        \/ LoginFindOne(r)
        \/ LoginWalletFindOne(r)
        \/ Throw(r)

\* The process after its first request has connected: the handle is memoized
\* and connectToDatabase returns it.
InitConnected ==
    /\ db = 1
    /\ clients = 1
    /\ users = <<>>
    /\ paymentRequests = <<>>
    /\ upiIndex = <<>>
    /\ now = 0
    /\ kind = [r \in Slots |-> "none"]
    /\ body = [r \in Slots |-> <<>>]
    /\ pc = [r \in Slots |-> "idle"]
    /\ local = [r \in Slots |-> <<>>]
    /\ res = [r \in Slots |-> NoRes]
    /\ fault = [r \in Slots |-> "none"]
    /\ lastOk = [c \in ContractIds |-> <<>>]
    /\ proc = "lazy"

SpecApi == InitConnected /\ [][NextApi]_vars

SigA == Str(<<"0", "x">> \o Rep("a", AddressDigits)
            \o Rep("1", SignatureLength - 2 - AddressDigits))

WalletRegisterBodies == [ethAddress : {AddrA}, signature : {SigA, Sig}, username : {Alice}]

WalletLoginBodies == [ethAddress : {AddrA, AddrAUpper, AddrB}, signature : {SigA, Sig}]

NextWalletLogin ==
    \E r \in Slots :
        \/ \E b \in WalletRegisterBodies : PostRegisterWallet(r, b)
        \/ \E b \in WalletLoginBodies : PostLoginWallet(r, b)
        \/ ConnectDone(r)
        \/ RegisterFindUsername(r)
        \/ RegisterFindWallet(r)
        \/ UserInsertOne(r)
        \/ LoginWalletFindOne(r)
        \/ Throw(r)

SpecWalletLogin == Init /\ [][NextWalletLogin]_vars

\* s is a string of length 132 that starts with '0x'.
SignatureShaped(s) ==
    s.t = "string" /\ Len(s.s) = 132 /\ s.s[1] = "0" /\ s.s[2] = "x"

ReadOnly == {"login", "loginWallet", "upiId", "contract", "paymentRequests"}

PasswordRegisterBodies == [ethAddress : {AddrA}, signature : {Sig}, username : {Alice}]

PasswordSignupBodies == [username : {Alice, Bob}, password : {Secret}]

PasswordLoginBodies == [username : {Alice, Bob}, password : {Undef, Str(<<>>), Secret}]

NextPasswordLogin ==
    \E r \in Slots :
        \/ \E b \in PasswordRegisterBodies : PostRegisterWallet(r, b)
        \/ \E b \in PasswordSignupBodies : PostSignup(r, b)
        \/ \E b \in PasswordLoginBodies : PostLogin(r, b)
        \/ ConnectDone(r)
        \/ RegisterFindUsername(r)
        \/ RegisterFindWallet(r)
        \/ SignupFindOne(r)
        \/ UserInsertOne(r)
        \/ LoginFindOne(r)
        \/ Throw(r)

SpecPasswordLogin == Init /\ [][NextPasswordLogin]_vars

\* C20: no step changes a stored password, and a user stored with password ''
\* (a user created by register-wallet) is never logged in by POST /api/login:
\* a login without a password or with the empty one is answered 400, a login
\* with a non-empty password that finds such a user 401, and every 200 carries
\* a user whose stored password is not ''.
C20_WalletUserCannotLogin ==
    [][/\ \A i \in 1..Len(users) : users'[i].password = users[i].password
       /\ \A r \in Slots :
             (Stepped(r) /\ kind'[r] = "login" /\ pc'[r] = "done" /\ fault'[r] = "none")
             => /\ body'[r].password \in {Undef, Str(<<>>)} => res'[r].status = 400
                /\ (/\ pc[r] = "findOne"
                    /\ \E i \in 1..Len(users) :
                          /\ users[i].username = body[r].username
                          /\ users[i].password = Str(<<>>)
                          /\ \A j \in 1..(i - 1) : users[j].username # body[r].username)
                   => res'[r].status = 401
                /\ res'[r].status = 200
                   => \E i \in 1..Len(users) :
                         /\ res'[r].data[1].id = users[i]._id
                         /\ users[i].password # Str(<<>>)]_vars

\* C20 witness: alice, created by register-wallet, is the only user; a login
\* of alice with the empty password has been answered 400 and one with a
\* non-empty password 401.
C20_Witness ==
    /\ Len(users) = 1
    /\ users[1].username = Alice
    /\ users[1].password = Str(<<>>)
    /\ \E r, q \in Slots :
          /\ kind[r] = "login" /\ body[r] = [username |-> Alice, password |-> Str(<<>>)]
          /\ pc[r] = "done" /\ res[r].status = 400
          /\ kind[q] = "login" /\ body[q] = [username |-> Alice, password |-> Secret]
          /\ pc[q] = "done" /\ res[q].status = 401

====
